---- MODULE Spec2Model ----
(***************************************************************************)
(* reader-font: the icon list controller (icon-list.vue), its persistence  *)
(* layer over localStorage (utils/storageUtil.ts) and the storage key      *)
(* codec.                                                                  *)
(*                                                                         *)
(* Strings are sequences of UTF-16 code units (naturals), so that          *)
(* sanitisation, base64, trimming, case folding and JSON text are computed *)
(* the way the code computes them.  The text a sequence stands for is      *)
(* given in a comment next to it.                                          *)
(***************************************************************************)
EXTENDS Integers, Sequences, FiniteSets, TLC

VARIABLES
    font,           \* props.font: a member of Fonts, or NoFont
    filename,       \* props.filename: a string, or NoFilename (undefined)
    allIconList,    \* allIconList.value: the canonical collection
    iconList,       \* iconList.value: indices into allIconList (the same objects)
    searchText,     \* text held by the search <n-input>
    tracksFont,     \* the watch effect's last run read props.font
    isDataSaved,    \* the cached value of the computed isDataSaved
    detail,         \* icon detail: the refs of the component and the fill of the <svg>
    fileList,       \* App: fileList.value, the uploaded files
    currentFileIndex, \* App: currentFileIndex.value (0-based)
    fontContent,    \* App: fontContent.value, the file it was parsed from or NoContent
    reads,          \* App: arrayBuffer() promises that have not settled
    localStorage,   \* window.localStorage: key -> stored text
    last,           \* the handler that ran last, with its arguments and outcome
    steps,          \* handlers run so far
    argFilename,    \* storage key codec: the filename handed to getSafeStorageKey
    resKey,         \* storage key codec: results of the calls made so far
    argIcons,       \* persistence store: the record list handed to saveFontData
    resIcons,       \* persistence store: what getFontData returned
    isDownloading,  \* isDownloading.value: the in-flight flag of the batch exports
    runs            \* the batch exports started so far, in the order of their start

listVars  == <<font, filename, allIconList, iconList, searchText, tracksFont>>
keyVars   == <<argFilename, resKey>>
storeVars == <<argIcons, resIcons>>
exportVars == <<isDownloading, runs>>
detailVars == <<detail>>
appVars    == <<fileList, currentFileIndex, fontContent, reads>>
vars      == <<font, filename, allIconList, iconList, searchText, tracksFont, localStorage,
               last, steps, argFilename, resKey, argIcons, resIcons, isDownloading, runs,
               isDataSaved, detail, fileList, currentFileIndex, fontContent, reads>>

----------------------------------------------------------------------------
(* Strings *)

Min(a, b) == IF a < b THEN a ELSE b
Max(a, b) == IF a > b THEN a ELSE b

\* s.repeat(n) for a one-character s
Repeat(c, n) == [i \in 1..n |-> c]

\* String.prototype.slice(-n)
SliceLast(s, n) == SubSeq(s, Max(1, Len(s) - n + 1), Len(s))

\* String.prototype.substring(0, n)
Substring0(s, n) == SubSeq(s, 1, Min(n, Len(s)))

\* String.prototype.includes(t)
Includes(s, t) ==
    \E k \in 0..(Len(s) - Len(t)) : SubSeq(s, k + 1, k + Len(t)) = t

\* String.prototype.toLowerCase(), on the code units the model uses (A-Z)
LowerChar(c) == IF c \in 65..90 THEN c + 32 ELSE c
ToLowerCase(s) == [i \in 1..Len(s) |-> LowerChar(s[i])]

\* String.prototype.trim(): white space is space, tab, LF, CR
IsSpace(c) == c \in {32, 9, 10, 13}
Trim(s) ==
    LET keep == {i \in 1..Len(s) : ~IsSpace(s[i])}
    IN  IF keep = {} THEN <<>>
        ELSE SubSeq(s, CHOOSE i \in keep : \A j \in keep : i <= j,
                       CHOOSE i \in keep : \A j \in keep : i >= j)

----------------------------------------------------------------------------
(* Storage key codec: utils/storageUtil.ts *)

\* 'font-icons-'
storageFontDatasKey == <<102,111,110,116,45,105,99,111,110,115,45>>
\* 'font-icons-saved-file-names'
storageFileNames ==
    <<102,111,110,116,45,105,99,111,110,115,45,
      115,97,118,101,100,45,102,105,108,101,45,110,97,109,101,115>>

maxLength == 50

\* filename.split('/').pop() || filename
Basename(f) ==
    LET slashes == {i \in 1..Len(f) : f[i] = 47}
        lastSeg == IF slashes = {} THEN f
                   ELSE SubSeq(f, 1 + (CHOOSE i \in slashes : \A j \in slashes : i >= j),
                               Len(f))
    IN  IF lastSeg = <<>> THEN f ELSE lastSeg

\* the character class [a-zA-Z0-9._-]
IsSafeChar(c) == c \in 97..122 \/ c \in 65..90 \/ c \in 48..57 \/ c \in {46, 95, 45}

\* basename.replace(/[^a-zA-Z0-9._-]/g, '_')
SanitizeUnderscore(b) == [i \in 1..Len(b) |-> IF IsSafeChar(b[i]) THEN b[i] ELSE 95]

\* basename.replace(/[^a-zA-Z0-9._-]/g, '')
SanitizeDelete(b) == SelectSeq(b, IsSafeChar)

\* The base64 alphabet A-Z a-z 0-9 + /
B64Char(v) ==
    IF v < 26 THEN 65 + v
    ELSE IF v < 52 THEN 97 + (v - 26)
    ELSE IF v < 62 THEN 48 + (v - 52)
    ELSE IF v = 62 THEN 43 ELSE 47

\* window.btoa(s), for s of code units below 256 (btoa throws on others)
Btoa(s) ==
    LET n == Len(s)
        byte(i) == IF i <= n THEN s[i] ELSE 0
        out(j) ==
            LET g  == (j - 1) \div 4
                p  == (j - 1) % 4
                b0 == byte(3 * g + 1)
                b1 == byte(3 * g + 2)
                b2 == byte(3 * g + 3)
            IN  IF p = 0 THEN B64Char(b0 \div 4)
                ELSE IF p = 1 THEN B64Char((b0 % 4) * 16 + (b1 \div 16))
                ELSE IF p = 2 THEN
                    IF 3 * g + 2 > n THEN 61
                    ELSE B64Char((b1 % 16) * 4 + (b2 \div 64))
                ELSE
                    IF 3 * g + 3 > n THEN 61 ELSE B64Char(b2 % 64)
    IN  [j \in 1..(4 * ((n + 2) \div 3)) |-> out(j)]

\* The two branches of getSafeStorageKey, given the sanitised name
KeyOfSafeName(prefix, safeName) ==
    IF Len(safeName) <= maxLength
    THEN prefix \o safeName
    ELSE LET hash          == Substring0(Btoa(safeName), 8)
             truncatedName == SliceLast(safeName, maxLength - 10)
         IN  prefix \o truncatedName \o <<45>> \o hash

KeyDigestOfTail(f) ==
    LET safeName == SanitizeUnderscore(Basename(f))
    IN  IF Len(safeName) <= maxLength THEN storageFontDatasKey \o safeName
        ELSE storageFontDatasKey \o SliceLast(safeName, maxLength - 10) \o <<45>>
             \o Substring0(Btoa(SliceLast(safeName, maxLength - 10)), 8)

KeyNoSanitize(f) == KeyOfSafeName(storageFontDatasKey, Basename(f))
KeyNoTruncate(f) == storageFontDatasKey \o SanitizeUnderscore(Basename(f))

\* getSafeStorageKey of utils/storageUtil.ts
GetSafeStorageKey(f) ==
    KeyOfSafeName(storageFontDatasKey, SanitizeUnderscore(Basename(f)))

\* getSafeStorageKey of the earlier revision of icon-list.vue, which deletes
\* the characters it does not allow (storageKeyPrefix is 'font-icons-')
GetSafeStorageKeyOld(f) ==
    KeyOfSafeName(storageFontDatasKey, SanitizeDelete(Basename(f)))

----------------------------------------------------------------------------
(* JavaScript values and JSON text.                                          *)
(* A value is a tagged record: a string, a number, a boolean, null, an array *)
(* (sequence of values) or an object (sequence of <<key, value>> members in  *)
(* insertion order).                                                         *)

JStr(s)  == [t |-> "str",  v |-> s]
JNum(n)  == [t |-> "num",  v |-> n]
JBool(b) == [t |-> "bool", v |-> b]
JNull    == [t |-> "null", v |-> 0]
JArr(a)  == [t |-> "arr",  v |-> a]
JObj(m)  == [t |-> "obj",  v |-> m]

RECURSIVE Digits(_)
\* the decimal digits of a natural number
Digits(n) == IF n < 10 THEN <<48 + n>> ELSE Digits(n \div 10) \o <<48 + (n % 10)>>

HexDigit(d) == IF d < 10 THEN 48 + d ELSE 87 + d

\* JSON.stringify's quoting of one code unit (surrogates are not modelled)
EscapeChar(c) ==
    IF c = 34 THEN <<92, 34>>
    ELSE IF c = 92 THEN <<92, 92>>
    ELSE IF c = 8  THEN <<92, 98>>
    ELSE IF c = 9  THEN <<92, 116>>
    ELSE IF c = 10 THEN <<92, 110>>
    ELSE IF c = 12 THEN <<92, 102>>
    ELSE IF c = 13 THEN <<92, 114>>
    ELSE IF c < 32 THEN <<92, 117, 48, 48, HexDigit(c \div 16), HexDigit(c % 16)>>
    ELSE <<c>>

RECURSIVE QuoteFrom(_, _)
QuoteFrom(s, i) == IF i > Len(s) THEN <<>> ELSE EscapeChar(s[i]) \o QuoteFrom(s, i + 1)

\* the JSON text of a string
Quote(s) == <<34>> \o QuoteFrom(s, 1) \o <<34>>

RECURSIVE JsonStringify(_), StringifyElems(_, _), StringifyMembers(_, _)

\* JSON.stringify(value)
JsonStringify(j) ==
    CASE j.t = "str"  -> Quote(j.v)
      [] j.t = "num"  -> IF j.v < 0 THEN <<45>> \o Digits(0 - j.v) ELSE Digits(j.v)
      [] j.t = "bool" -> IF j.v THEN <<116,114,117,101>> ELSE <<102,97,108,115,101>>
      [] j.t = "null" -> <<110,117,108,108>>
      [] j.t = "arr"  -> <<91>> \o StringifyElems(j.v, 1) \o <<93>>
      [] j.t = "obj"  -> <<123>> \o StringifyMembers(j.v, 1) \o <<125>>

StringifyElems(a, i) ==
    IF i > Len(a) THEN <<>>
    ELSE (IF i > 1 THEN <<44>> ELSE <<>>) \o JsonStringify(a[i]) \o StringifyElems(a, i + 1)

StringifyMembers(m, i) ==
    IF i > Len(m) THEN <<>>
    ELSE (IF i > 1 THEN <<44>> ELSE <<>>) \o Quote(m[i][1]) \o <<58>>
         \o JsonStringify(m[i][2]) \o StringifyMembers(m, i + 1)

\* Results of the parser: a value and the position after it, or a SyntaxError
ParseOk(val, next) == [ok |-> TRUE, val |-> val, next |-> next]
ParseFail          == [ok |-> FALSE, val |-> JNull, next |-> 0]

RECURSIVE SkipWs(_, _)
SkipWs(txt, p) ==
    IF p <= Len(txt) /\ txt[p] \in {32, 9, 10, 13} THEN SkipWs(txt, p + 1) ELSE p

IsDigit(c) == c \in 48..57
IsHex(c)   == c \in 48..57 \/ c \in 97..102 \/ c \in 65..70
HexVal(c)  == IF c \in 48..57 THEN c - 48 ELSE IF c \in 97..102 THEN c - 87 ELSE c - 55

RECURSIVE ParseChars(_, _, _)
\* the characters of a string literal, from position p (after the opening quote)
ParseChars(txt, p, acc) ==
    IF p > Len(txt) THEN ParseFail
    ELSE IF txt[p] = 34 THEN ParseOk(JStr(acc), p + 1)
    ELSE IF txt[p] < 32 THEN ParseFail
    ELSE IF txt[p] # 92 THEN ParseChars(txt, p + 1, Append(acc, txt[p]))
    ELSE IF p + 1 > Len(txt) THEN ParseFail
    ELSE LET e == txt[p + 1]
         IN  IF e \in {34, 92, 47} THEN ParseChars(txt, p + 2, Append(acc, e))
             ELSE IF e = 98  THEN ParseChars(txt, p + 2, Append(acc, 8))
             ELSE IF e = 116 THEN ParseChars(txt, p + 2, Append(acc, 9))
             ELSE IF e = 110 THEN ParseChars(txt, p + 2, Append(acc, 10))
             ELSE IF e = 102 THEN ParseChars(txt, p + 2, Append(acc, 12))
             ELSE IF e = 114 THEN ParseChars(txt, p + 2, Append(acc, 13))
             ELSE IF e = 117 /\ p + 5 <= Len(txt)
                     /\ \A k \in 2..5 : IsHex(txt[p + k])
                  THEN ParseChars(txt, p + 6,
                          Append(acc, HexVal(txt[p + 2]) * 4096 + HexVal(txt[p + 3]) * 256
                                      + HexVal(txt[p + 4]) * 16 + HexVal(txt[p + 5])))
             ELSE ParseFail

RECURSIVE ParseDigits(_, _, _)
ParseDigits(txt, p, acc) ==
    IF p <= Len(txt) /\ IsDigit(txt[p])
    THEN ParseDigits(txt, p + 1, acc * 10 + (txt[p] - 48))
    ELSE [val |-> acc, next |-> p]

\* an integer literal (the code writes no fractions or exponents)
ParseNumber(txt, p) ==
    LET neg == txt[p] = 45
        q   == IF neg THEN p + 1 ELSE p
    IN  IF q > Len(txt) \/ ~IsDigit(txt[q]) THEN ParseFail
        ELSE IF txt[q] = 48 /\ q + 1 <= Len(txt) /\ IsDigit(txt[q + 1]) THEN ParseFail
        ELSE LET d == ParseDigits(txt, q, 0)
             IN  IF d.next <= Len(txt) /\ txt[d.next] \in {46, 101, 69} THEN ParseFail
                 ELSE ParseOk(JNum(IF neg THEN 0 - d.val ELSE d.val), d.next)

Literal(txt, p, word, val) ==
    IF SubSeq(txt, p, Min(Len(txt), p + Len(word) - 1)) = word
    THEN ParseOk(val, p + Len(word)) ELSE ParseFail

RECURSIVE ParseValue(_, _), ParseElems(_, _, _), ParseMembers(_, _, _)

\* one JSON value starting at position p (white space already skipped)
ParseValue(txt, p) ==
    IF p > Len(txt) THEN ParseFail
    ELSE LET c == txt[p]
         IN  IF c = 34 THEN ParseChars(txt, p + 1, <<>>)
             ELSE IF c = 91 THEN
                 LET q == SkipWs(txt, p + 1)
                 IN  IF q <= Len(txt) /\ txt[q] = 93 THEN ParseOk(JArr(<<>>), q + 1)
                     ELSE ParseElems(txt, q, <<>>)
             ELSE IF c = 123 THEN
                 LET q == SkipWs(txt, p + 1)
                 IN  IF q <= Len(txt) /\ txt[q] = 125 THEN ParseOk(JObj(<<>>), q + 1)
                     ELSE ParseMembers(txt, q, <<>>)
             ELSE IF c = 116 THEN Literal(txt, p, <<116,114,117,101>>, JBool(TRUE))
             ELSE IF c = 102 THEN Literal(txt, p, <<102,97,108,115,101>>, JBool(FALSE))
             ELSE IF c = 110 THEN Literal(txt, p, <<110,117,108,108>>, JNull)
             ELSE IF c = 45 \/ IsDigit(c) THEN ParseNumber(txt, p)
             ELSE ParseFail

\* the elements of an array, from the element at position p
ParseElems(txt, p, acc) ==
    LET e == ParseValue(txt, p)
    IN  IF ~e.ok THEN ParseFail
        ELSE LET q == SkipWs(txt, e.next)
             IN  IF q > Len(txt) THEN ParseFail
                 ELSE IF txt[q] = 93 THEN ParseOk(JArr(Append(acc, e.val)), q + 1)
                 ELSE IF txt[q] = 44
                      THEN ParseElems(txt, SkipWs(txt, q + 1), Append(acc, e.val))
                 ELSE ParseFail

\* the members of an object, from the key at position p
ParseMembers(txt, p, acc) ==
    IF p > Len(txt) \/ txt[p] # 34 THEN ParseFail
    ELSE LET k == ParseChars(txt, p + 1, <<>>)
         IN  IF ~k.ok THEN ParseFail
             ELSE LET c == SkipWs(txt, k.next)
                  IN  IF c > Len(txt) \/ txt[c] # 58 THEN ParseFail
                      ELSE LET e == ParseValue(txt, SkipWs(txt, c + 1))
                           IN  IF ~e.ok THEN ParseFail
                               ELSE LET q == SkipWs(txt, e.next)
                                        m == Append(acc, <<k.val.v, e.val>>)
                                    IN  IF q > Len(txt) THEN ParseFail
                                        ELSE IF txt[q] = 125 THEN ParseOk(JObj(m), q + 1)
                                        ELSE IF txt[q] = 44
                                             THEN ParseMembers(txt, SkipWs(txt, q + 1), m)
                                        ELSE ParseFail

\* JSON.parse(text): the value, or ok = FALSE for a SyntaxError
JsonParse(txt) ==
    LET WholeText(r) ==
            IF r.ok /\ SkipWs(txt, r.next) = Len(txt) + 1 THEN r ELSE ParseFail
    IN  WholeText(ParseValue(txt, SkipWs(txt, 1)))

----------------------------------------------------------------------------
(* Icon records (IconProps) and their JavaScript object form *)

PropUnicode     == <<117,110,105,99,111,100,101>>               \* 'unicode'
PropIconName    == <<105,99,111,110,78,97,109,101>>             \* 'iconName'
PropViewBox     == <<118,105,101,119,66,111,120>>               \* 'viewBox'
PropSvgPath     == <<115,118,103,80,97,116,104>>                \* 'svgPath'
PropIsEditing   == <<105,115,69,100,105,116,105,110,103>>       \* 'isEditing'
PropEditingName == <<101,100,105,116,105,110,103,78,97,109,101>> \* 'editingName'

\* An IconProps object, with its properties in the order generatorIconList
\* creates them
JsonOfIcon(r) ==
    JObj(<< <<PropUnicode,     JNum(r.unicode)>>,
            <<PropIconName,    JStr(r.iconName)>>,
            <<PropViewBox,     JStr(r.viewBox)>>,
            <<PropSvgPath,     JStr(r.svgPath)>>,
            <<PropIsEditing,   JBool(r.isEditing)>>,
            <<PropEditingName, JStr(r.editingName)>> >>)

JsonOfIcons(icons) == JArr([i \in 1..Len(icons) |-> JsonOfIcon(icons[i])])

\* object[key] for an object that has the property with the type wanted;
\* other values do not occur in the stores of this model and read as dflt
Prop(o, key, type, dflt) ==
    LET hits == IF o.t = "obj"
                THEN {i \in 1..Len(o.v) : o.v[i][1] = key /\ o.v[i][2].t = type}
                ELSE {}
    IN  IF hits = {} THEN dflt
        ELSE o.v[CHOOSE i \in hits : \A j \in hits : i >= j][2].v

IconOfJson(o) ==
    [unicode     |-> Prop(o, PropUnicode, "num", 0),
     iconName    |-> Prop(o, PropIconName, "str", <<>>),
     viewBox     |-> Prop(o, PropViewBox, "str", <<>>),
     svgPath     |-> Prop(o, PropSvgPath, "str", <<>>),
     isEditing   |-> Prop(o, PropIsEditing, "bool", FALSE),
     editingName |-> Prop(o, PropEditingName, "str", <<>>)]

IconsOfJson(j) ==
    IF j.t = "arr" THEN [i \in 1..Len(j.v) |-> IconOfJson(j.v[i])] ELSE <<>>

----------------------------------------------------------------------------
(* Persistence store: utils/storageUtil.ts over window.localStorage.        *)
(* The store is a function from the keys present to their texts.  setItem   *)
(* can throw (quota exceeded, storage unavailable); whether it does is the  *)
(* environment's choice, an argument of the operators that write.  An       *)
(* operator that can throw returns [threw, ls]: whether it threw and the    *)
(* store it leaves.                                                         *)

EmptyStore == [k \in {} |-> <<>>]

\* localStorage.getItem(k) !== null
HasItem(ls, k) == k \in DOMAIN ls

\* localStorage.setItem(k, text)
SetItem(ls, k, text) == [x \in (DOMAIN ls) \cup {k} |-> IF x = k THEN text ELSE ls[x]]

\* localStorage.removeItem(k)
RemoveItem(ls, k) == [x \in (DOMAIN ls) \ {k} |-> ls[x]]

\* getSavedFileNameData(): the parsed registry, [] when absent or unparseable
GetSavedFileNameData(ls) ==
    LET Caught(r) == IF r.ok THEN r.val ELSE JArr(<<>>)
    IN  IF HasItem(ls, storageFileNames) /\ ls[storageFileNames] # <<>>
        THEN Caught(JsonParse(ls[storageFileNames]))
        ELSE JArr(<<>>)

SaveFileNameDataAlwaysPush(ls, f, quota) ==
    LET Push(names) ==
            IF names.t # "arr" \/ quota THEN [threw |-> TRUE, ls |-> ls]
            ELSE [threw |-> FALSE,
                  ls |-> SetItem(ls, storageFileNames,
                                 JsonStringify(JArr(Append(names.v, JStr(f)))))]
    IN  Push(GetSavedFileNameData(ls))

\* saveFileNameData(filename); quota: the setItem it makes throws
SaveFileNameData(ls, f, quota) ==
    LET Push(names) ==
            IF names.t = "arr"
            THEN IF \E i \in 1..Len(names.v) : names.v[i].t = "str" /\ names.v[i].v = f
                 THEN [threw |-> FALSE, ls |-> ls]
                 ELSE IF quota THEN [threw |-> TRUE, ls |-> ls]
                 ELSE [threw |-> FALSE,
                       ls |-> SetItem(ls, storageFileNames,
                                      JsonStringify(JArr(Append(names.v, JStr(f)))))]
            ELSE IF names.t = "str" /\ Includes(names.v, f)
                 THEN [threw |-> FALSE, ls |-> ls]
                 \* includes or push is not a function of the parsed value: TypeError
                 ELSE [threw |-> TRUE, ls |-> ls]
    IN  Push(GetSavedFileNameData(ls))

GetFontDataNoCatch(ls, f) ==
    LET Stored(storageKey) ==
            IF HasItem(ls, storageKey) /\ ls[storageKey] # <<>>
            THEN JsonParse(ls[storageKey]).val
            ELSE JNull
    IN  Stored(GetSafeStorageKey(f))

\* getFontData(filename): the parsed value, [] when absent or unparseable
GetFontData(ls, f) ==
    LET Caught(r) == IF r.ok THEN r.val ELSE JArr(<<>>)
        Stored(storageKey) ==
            IF HasItem(ls, storageKey) /\ ls[storageKey] # <<>>
            THEN Caught(JsonParse(ls[storageKey]))
            ELSE JArr(<<>>)
    IN  Stored(GetSafeStorageKey(f))

SaveFontDataRawKey(ls, f, value, quota) ==
    IF quota THEN [threw |-> TRUE, ls |-> ls]
    ELSE [threw |-> FALSE,
          ls |-> SetItem(ls, storageFontDatasKey \o f, JsonStringify(value))]

\* saveFontData(filename, iconProps); quota: the setItem it makes throws
SaveFontData(ls, f, value, quota) ==
    IF quota THEN [threw |-> TRUE, ls |-> ls]
    ELSE [threw |-> FALSE, ls |-> SetItem(ls, GetSafeStorageKey(f), JsonStringify(value))]

\* deleteStorageData(filename); quota: the setItem it makes throws.  The
\* registry is read after the record was removed.
DeleteStorageData(ls, f, quota) ==
    LET IsName(e) == e.t = "str" /\ e.v = f
        Splice(removed, names) ==
            IF names.t = "arr"
            THEN IF \E i \in 1..Len(names.v) : IsName(names.v[i])
                 THEN LET index == CHOOSE i \in 1..Len(names.v) :
                                      /\ IsName(names.v[i])
                                      /\ \A j \in 1..(i - 1) : ~IsName(names.v[j])
                          rest  == [j \in 1..(Len(names.v) - 1) |->
                                       IF j < index THEN names.v[j] ELSE names.v[j + 1]]
                      IN  IF quota THEN [threw |-> TRUE, ls |-> removed]
                          ELSE [threw |-> FALSE,
                                ls |-> SetItem(removed, storageFileNames,
                                               JsonStringify(JArr(rest)))]
                 ELSE [threw |-> FALSE, ls |-> removed]
            \* indexOf of a string finds nothing, or splice is not a function
            ELSE IF names.t = "str" /\ ~Includes(names.v, f)
                 THEN [threw |-> FALSE, ls |-> removed]
                 ELSE [threw |-> TRUE, ls |-> removed]
        Removed(removed) == Splice(removed, GetSavedFileNameData(removed))
    IN  Removed(RemoveItem(ls, GetSafeStorageKey(f)))

----------------------------------------------------------------------------
(* Props of the icon list *)

\* props.font is null or undefined
NoFont == [present |-> FALSE, glyphs |-> <<>>]
\* props.filename is undefined; the code tests it only by truthiness, under
\* which undefined and '' are alike
NoFilename == <<>>

----------------------------------------------------------------------------
(* Icon list controller: icon-list.vue *)

\* String(n) for an integer n
NumToString(n) == IF n < 0 THEN <<45>> \o Digits(0 - n) ELSE Digits(n)

\* One record of generatorIconList, for a glyph that has a code point.  A glyph
\* is [unicode, name, bbox, svg]: unicode 0 and name '' stand for absent ones,
\* bbox is <<x1, y1, x2, y2>> of glyph.getPath().getBoundingBox(), svg is
\* what path.toSVG(2) returns.
IconOfGlyph(g) ==
    [unicode     |-> g.unicode,
     iconName    |-> g.name,
     viewBox     |-> NumToString(g.bbox[1]) \o <<32>> \o NumToString(g.bbox[2]) \o <<32>>
                     \o NumToString(g.bbox[3] - g.bbox[1]) \o <<32>>
                     \o NumToString(g.bbox[4] - g.bbox[2]),
     svgPath     |-> g.svg,
     isEditing   |-> FALSE,
     editingName |-> g.name]

HasUnicode(g) == g.unicode # 0

\* generatorIconList(font)
GeneratorIconList(f) ==
    LET withCode == SelectSeq(f.glyphs, HasUnicode)
    IN  [i \in 1..Len(withCode) |-> IconOfGlyph(withCode[i])]

\* The computed isDataSaved when it is evaluated: getItem under the key of the
\* filename is not null; getSafeStorageKey and getItem do not throw
IsDataSaved(ls, fn) ==
    IF fn = NoFilename THEN FALSE ELSE HasItem(ls, GetSafeStorageKey(fn))

\* value.length > 0 of loadSavedIconData's test
HasLength(j) == j.t \in {"arr", "str"} /\ Len(j.v) > 0

\* loadSavedIconData(): whether cached data was loaded, and the data
LoadSavedIconData(ls, fn) ==
    LET Assign(savedIcons) ==
            IF HasLength(savedIcons)
            THEN [loaded |-> TRUE, icons |-> IconsOfJson(savedIcons)]
            ELSE [loaded |-> FALSE, icons |-> <<>>]
    IN  IF fn = NoFilename THEN [loaded |-> FALSE, icons |-> <<>>]
        ELSE Assign(GetFontData(ls, fn))

WatchEffectFontFirst(ls, f, fn) ==
    IF f.present
    THEN [icons |-> GeneratorIconList(f), source |-> "font", tracksFont |-> TRUE]
    ELSE LET c == LoadSavedIconData(ls, fn)
         IN  IF c.loaded
             THEN [icons |-> c.icons, source |-> "cache", tracksFont |-> TRUE]
             ELSE [icons |-> <<>>, source |-> "none", tracksFont |-> TRUE]

\* One run of the watch effect: the collection it installs (as both views),
\* the branch taken, and whether the run read props.font
WatchEffect(ls, f, fn) ==
    LET Run(c) ==
            IF c.loaded
            THEN [icons |-> c.icons, source |-> "cache", tracksFont |-> FALSE]
            ELSE IF ~f.present
            THEN [icons |-> <<>>, source |-> "none", tracksFont |-> TRUE]
            ELSE [icons |-> GeneratorIconList(f), source |-> "font", tracksFont |-> TRUE]
    IN  Run(LoadSavedIconData(ls, fn))

\* The view that shows a whole collection: iconList.value is the same array
WholeView(icons) == [i \in 1..Len(icons) |-> i]

Shown(view) == {view[p] : p \in 1..Len(view)}

HandleSearchCaseSensitive(icons, text) ==
    LET match(i) == Includes(icons[i].iconName, text)
    IN  SelectSeq(WholeView(icons), match)

HandleSearchFalsyText(icons, text) ==
    LET match(i) == text # <<>>
                    /\ Includes(ToLowerCase(icons[i].iconName), ToLowerCase(text))
    IN  SelectSeq(WholeView(icons), match)

\* handleSearch(text): the filtered view
HandleSearch(icons, text) ==
    LET match(i) == Includes(ToLowerCase(icons[i].iconName), ToLowerCase(text))
    IN  SelectSeq(WholeView(icons), match)

StartEditingKeepOthers(icons, view, i) ==
    [icons EXCEPT ![i] = [icons[i] EXCEPT !.isEditing = TRUE,
                                          !.editingName = icons[i].iconName]]

\* startEditing(icon), icon being allIconList[i]
StartEditing(icons, view, i) ==
    [j \in 1..Len(icons) |->
        IF j = i
        THEN [icons[j] EXCEPT !.isEditing = TRUE, !.editingName = icons[j].iconName]
        ELSE IF j \in Shown(view) THEN [icons[j] EXCEPT !.isEditing = FALSE]
        ELSE icons[j]]

FinishEditingNoTrim(icons, i) ==
    [icons EXCEPT ![i] =
        IF Trim(icons[i].editingName) # <<>>
        THEN [icons[i] EXCEPT !.iconName = icons[i].editingName, !.isEditing = FALSE]
        ELSE [icons[i] EXCEPT !.isEditing = FALSE]]

\* finishEditing(icon)
FinishEditing(icons, i) ==
    LET trimmed == Trim(icons[i].editingName)
    IN  [icons EXCEPT ![i] =
            IF trimmed # <<>>
            THEN [icons[i] EXCEPT !.iconName = trimmed, !.isEditing = FALSE]
            ELSE [icons[i] EXCEPT !.isEditing = FALSE]]

\* cancelEditing(icon)
CancelEditing(icons, i) == [icons EXCEPT ![i].isEditing = FALSE]

HandleSaveWithoutFilenameTest(ls, fn, icons, quota1, quota2) ==
    LET Second(r2) ==
            IF r2.threw THEN [result |-> "error", ls |-> r2.ls]
            ELSE [result |-> "success", ls |-> r2.ls]
        First(r1) ==
            IF r1.threw THEN [result |-> "error", ls |-> r1.ls]
            ELSE Second(SaveFileNameData(r1.ls, fn, quota2))
    IN  First(SaveFontData(ls, fn, JsonOfIcons(icons), quota1))

\* handleSave(): the message shown and the store left; quota1 and quota2 say
\* whether the setItem of saveFontData and of saveFileNameData throw
HandleSave(ls, fn, icons, quota1, quota2) ==
    LET Second(r2) ==
            IF r2.threw THEN [result |-> "error", ls |-> r2.ls]
            ELSE [result |-> "success", ls |-> r2.ls]
        First(r1) ==
            IF r1.threw THEN [result |-> "error", ls |-> r1.ls]
            ELSE Second(SaveFileNameData(r1.ls, fn, quota2))
    IN  IF fn = NoFilename THEN [result |-> "nofilename", ls |-> ls]
        ELSE First(SaveFontData(ls, fn, JsonOfIcons(icons), quota1))

----------------------------------------------------------------------------
(* Batch exports: downloadAllSvg, downloadAllPng and svgToPng of             *)
(* icon-list.vue.  An export is a record                                     *)
(*   kind    "svg" or "png"                                                  *)
(*   phase   "converting" (the PNG conversions are awaited), "packaging"     *)
(*           (zip.generateAsync is pending) or "ended"                       *)
(*   conv    per icon of the collection: "pending", "ok" or "failed"         *)
(*   zip     zip.files: entry name -> index of the icon whose content it is  *)
(*   report  the message shown: "none", "success" or "failure"               *)
(*   archive whether the archive was handed to the browser for download      *)
(*   timer   time units until the delayed reset of the flag, -1 without one  *)

resetDelay == 3     \* setTimeout(..., 3000): 3 seconds

ExtSvg == <<46,115,118,103>>       \* '.svg'
ExtPng == <<46,112,110,103>>       \* '.png'

\* `${icon.iconName || `icon_${icon.unicode}`}` followed by the extension
EntryName(icon, ext) ==
    (IF icon.iconName # <<>> THEN icon.iconName
     ELSE <<105,99,111,110,95>> \o NumToString(icon.unicode)) \o ext

EmptyZip == [n \in {} |-> 0]

\* zip.file(name, content of icon i): an entry of that name is replaced
ZipFile(zip, name, i) == [n \in (DOMAIN zip) \cup {name} |-> IF n = name THEN i ELSE zip[n]]

RECURSIVE ZipAll(_, _, _, _)
\* allIconList.value.forEach(icon => zip.file(...)), from icon i on
ZipAll(zip, icons, i, ext) ==
    IF i > Len(icons) THEN zip
    ELSE ZipAll(ZipFile(zip, EntryName(icons[i], ext), i), icons, i + 1, ext)

DownloadStartsAlways(flag) == TRUE

\* if (isDownloading.value) return;
DownloadStarts(flag) == ~flag

\* downloadAllSvg() up to zip.generateAsync: the flag and the exports it leaves.
\* An export keeps the icon objects it was started with (icons) and the text of
\* link.download (download); startedFor is history the code does not keep,
\* props.filename at the click, filled in by the click actions
DownloadAllSvg(flag, rs, icons) ==
    IF ~DownloadStarts(flag) THEN [flag |-> flag, runs |-> rs]
    ELSE [flag |-> TRUE,
          runs |-> Append(rs, [kind |-> "svg", phase |-> "packaging",
                               conv |-> [i \in 1..Len(icons) |-> "ok"],
                               zip |-> ZipAll(EmptyZip, icons, 1, ExtSvg),
                               report |-> "none", archive |-> FALSE, timer |-> -1,
                               icons |-> icons, download |-> <<>>,
                               startedFor |-> NoFilename])]

\* downloadAllPng() up to await Promise.all: every conversion is started
DownloadAllPng(flag, rs, icons) ==
    IF ~DownloadStarts(flag) THEN [flag |-> flag, runs |-> rs]
    ELSE [flag |-> TRUE,
          runs |-> Append(rs, [kind |-> "png", phase |-> "converting",
                               conv |-> [i \in 1..Len(icons) |-> "pending"],
                               zip |-> EmptyZip,
                               report |-> "none", archive |-> FALSE, timer |-> -1,
                               icons |-> icons, download |-> <<>>,
                               startedFor |-> NoFilename])]

\* svgToPng(icon) of an export settles: resolved (ok) the blob is added to the
\* zip, rejected the icon is skipped
SvgToPngSettles(run, icons, i, ok) ==
    IF ok THEN [run EXCEPT !.conv[i] = "ok",
                           !.zip = ZipFile(run.zip, EntryName(icons[i], ExtPng), i)]
    ELSE [run EXCEPT !.conv[i] = "failed"]

PromiseAny(conv) == \E i \in 1..Len(conv) : conv[i] # "pending"

\* Promise.all(promises) is resolved: no conversion is pending
PromiseAll(conv) == \A i \in 1..Len(conv) : conv[i] # "pending"

AfterConversionsKeepFlag(flag, run) ==
    IF DOMAIN run.zip = {}
    THEN [flag |-> flag, run |-> [run EXCEPT !.phase = "ended", !.report = "failure"]]
    ELSE [flag |-> flag, run |-> [run EXCEPT !.phase = "packaging"]]

\* downloadAllPng() after await Promise.all: with no entry in the zip the
\* error is shown and the flag is reset; else zip.generateAsync is called
AfterConversions(flag, run) ==
    IF DOMAIN run.zip = {}
    THEN [flag |-> FALSE, run |-> [run EXCEPT !.phase = "ended", !.report = "failure"]]
    ELSE [flag |-> flag,  run |-> [run EXCEPT !.phase = "packaging"]]

\* props.filename.replace(/\.[^/.]+$/, ''): the last '.' and what follows it
\* are cut when at least one character follows and none of them is '/'
BaseFilename(fn) ==
    LET dots == {p \in 1..(Len(fn) - 1) :
                    fn[p] = 46 /\ \A q \in (p + 1)..Len(fn) : fn[q] \notin {46, 47}}
    IN  IF dots = {} THEN fn ELSE SubSeq(fn, 1, (CHOOSE p \in dots : TRUE) - 1)

\* link.download: `${baseFilename}-svg.zip` or `${baseFilename}-png.zip`, the
\* base being 'icons-svg' or 'icons-png' without filename
DownloadName(fn, kind) ==
    LET suffix == IF kind = "svg" THEN <<45,115,118,103>> ELSE <<45,112,110,103>>
    IN  (IF fn # NoFilename THEN BaseFilename(fn) ELSE <<105,99,111,110,115>> \o suffix)
        \o suffix \o <<46,122,105,112>>

\* zip.generateAsync settles, props.filename being fn: then (download, success
\* message) or catch (error message), and finally the reset timer is set
GenerateSettles(run, ok, fn) ==
    [run EXCEPT !.phase = "ended",
                !.report = IF ok THEN "success" ELSE "failure",
                !.archive = ok,
                !.download = IF ok THEN DownloadName(fn, run.kind) ELSE run.download,
                !.timer = resetDelay]

----------------------------------------------------------------------------
(* Icon detail: components/icon-detail.vue. currentIcon is the index of the   *)
(* record of allIconList the modal shows (the same object), 0 for null.      *)

\* icon-detail.vue after setup: the refs of lines 29-36, no <svg> rendered
ClosedDetail ==
    [isModalVisible |-> FALSE, currentIcon |-> 0, rotationAngle |-> 0, scaleFactor |-> 1,
     positionOffset |-> [x |-> 0, y |-> 0], isGridVisible |-> FALSE, fill |-> <<>>,
     transform |-> [x |-> 0, y |-> 0, rotate |-> 0, scale |-> 1]]

NullNumber == -1    \* null of <n-input-number>, which no input of the model equals
moveStep == 10      \* const step = 10

\* the <svg> of the modal is rendered: svgElementRef.value is not null
SvgRendered(d) == d.isModalVisible /\ d.currentIcon # 0

\* openModal(icon); the modal body is mounted anew, its <svg> without style
OpenModal(d, i) ==
    [d EXCEPT !.isModalVisible = TRUE, !.currentIcon = i, !.rotationAngle = 0,
              !.scaleFactor = 1, !.positionOffset = [x |-> 0, y |-> 0],
              !.fill = <<>>, !.transform = ClosedDetail.transform]

\* v-model:show of the modal is set to false; the modal body is unmounted
CloseModal(d) ==
    [d EXCEPT !.isModalVisible = FALSE, !.fill = <<>>, !.transform = ClosedDetail.transform]

\* updateColor(color)
UpdateColor(d, color) == IF SvgRendered(d) THEN [d EXCEPT !.fill = color] ELSE d

\* applyTransformations()
ApplyTransformations(d) ==
    IF ~SvgRendered(d) THEN d
    ELSE [d EXCEPT !.transform = [x |-> d.positionOffset.x, y |-> d.positionOffset.y,
                                  rotate |-> d.rotationAngle, scale |-> d.scaleFactor]]

\* rotateIcon(degrees)
RotateIcon(d, degrees) ==
    IF ~SvgRendered(d) THEN d
    ELSE ApplyTransformations([d EXCEPT !.rotationAngle = d.rotationAngle + degrees])

\* v-model:value="rotationAngle" and then setRotationAngle(degrees)
SetRotationAngle(d, degrees) ==
    IF ~SvgRendered(d) THEN [d EXCEPT !.rotationAngle = degrees]
    ELSE ApplyTransformations(
             [d EXCEPT !.rotationAngle = IF degrees = NullNumber THEN 0 ELSE degrees])

\* v-model:value="scaleFactor" and then setScaleFactor(scale)
SetScaleFactor(d, scale) ==
    IF scale = NullNumber THEN [d EXCEPT !.scaleFactor = NullNumber]
    ELSE ApplyTransformations([d EXCEPT !.scaleFactor = scale])

\* moveIcon(direction)
MoveIcon(d, direction) ==
    LET dx == IF direction = "left" THEN -moveStep ELSE IF direction = "right" THEN moveStep ELSE 0
        dy == IF direction = "up" THEN -moveStep ELSE IF direction = "down" THEN moveStep ELSE 0
    IN  ApplyTransformations([d EXCEPT !.positionOffset = [x |-> d.positionOffset.x + dx,
                                                           y |-> d.positionOffset.y + dy]])

\* toggleGridVisibility()
ToggleGridVisibility(d) == [d EXCEPT !.isGridVisible = ~d.isGridVisible]

InputIconNameAndBuffer(icons, cur, text) ==
    [icons EXCEPT ![cur].iconName = text, ![cur].editingName = text]

\* v-model:value="currentIcon.iconName" of the name input of the modal
InputIconName(icons, cur, text) == [icons EXCEPT ![cur].iconName = text]

----------------------------------------------------------------------------
(* The file list: App.vue. A file is [name, id, valid]: id tells files of    *)
(* one name apart and stands for the content, valid says whether            *)
(* opentype.parse accepts it. fontContent is the id of the file it was       *)
(* parsed from. The state of App is a = [fileList, currentFileIndex,         *)
(* fontContent, reads]; a read is [file, caught, at].                        *)

\* fontContent.value is null
NoContent == 0

\* the files of evt whose name no earlier file of evt has, in their order
UniqueFiles(evt) ==
    LET first(i) == \A j \in 1..(i - 1) : evt[j].name # evt[i].name
        keep == {i \in 1..Len(evt) : first(i)}
        Nth(k) == CHOOSE i \in keep : Cardinality({j \in keep : j < i}) = k - 1
    IN  [k \in 1..Cardinality(keep) |-> evt[Nth(k)]]

\* currentFile.file.arrayBuffer().then(...): a read of the file at the 0-based
\* index is started, if there is such a file
StartRead(a, index, caught, at) ==
    IF index >= 0 /\ index < Len(a.fileList)
    THEN [a EXCEPT !.reads = a.reads \cup {[file |-> a.fileList[index + 1], caught |-> caught,
                                            at |-> at]}]
    ELSE a

\* handleUploadChange(evt)
HandleUploadChange(a, evt, at) ==
    IF Len(UniqueFiles(evt)) > 0
    THEN StartRead([a EXCEPT !.fileList = UniqueFiles(evt)], a.currentFileIndex, FALSE, at)
    ELSE [a EXCEPT !.fileList = <<>>, !.fontContent = NoContent]

HandleRemoveKeepIndex(a, index, at) ==
    LET spliced == [k \in 1..(Len(a.fileList) - 1) |->
                       IF k <= index THEN a.fileList[k] ELSE a.fileList[k + 1]]
        newIndex == IF index = a.currentFileIndex /\ a.currentFileIndex >= Len(spliced)
                    THEN Max(0, Len(spliced) - 1)
                    ELSE a.currentFileIndex
    IN  IF Len(spliced) = 0
        THEN [a EXCEPT !.fileList = spliced, !.currentFileIndex = newIndex,
                       !.fontContent = NoContent]
        ELSE StartRead([a EXCEPT !.fileList = spliced, !.currentFileIndex = newIndex],
                       newIndex, TRUE, at)

\* handleRemove(_file, index), index 0-based
HandleRemove(a, index, at) ==
    LET spliced == [k \in 1..(Len(a.fileList) - 1) |->
                       IF k <= index THEN a.fileList[k] ELSE a.fileList[k + 1]]
        newIndex == IF index < a.currentFileIndex THEN a.currentFileIndex - 1
                    ELSE IF index = a.currentFileIndex /\ a.currentFileIndex >= Len(spliced)
                    THEN Max(0, Len(spliced) - 1)
                    ELSE a.currentFileIndex
    IN  IF Len(spliced) = 0
        THEN [a EXCEPT !.fileList = spliced, !.currentFileIndex = newIndex,
                       !.fontContent = NoContent]
        ELSE StartRead([a EXCEPT !.fileList = spliced, !.currentFileIndex = newIndex],
                       newIndex, TRUE, at)

\* handleFileClick(index), index 0-based
HandleFileClick(a, index, at) ==
    StartRead([a EXCEPT !.currentFileIndex = index], index, FALSE, at)

\* the promise of a read settles: then sets fontContent to the parsed font;
\* when opentype.parse throws, the catch of handleRemove sets null and the
\* other two callers leave fontContent as it is
ReadSettles(a, r) ==
    [a EXCEPT !.reads = a.reads \ {r},
              !.fontContent = IF r.file.valid THEN r.file.id
                              ELSE IF r.caught THEN NoContent
                              ELSE a.fontContent]

----------------------------------------------------------------------------
(* The storage key codec as a state machine: one filename, called repeatedly *)

MaxPad   == 48     \* longest run of padding characters in a generated filename
MaxCalls == 2      \* calls of each revision of getSafeStorageKey per filename

\* '/', '?', '_', 'z' and a non-ASCII code unit
KeyChars == {47, 63, 95, 122, 20013}
\* every character of [a-zA-Z0-9._-], and three outside it ('/', '?', '~')
DigestChars == {c \in 0..127 : IsSafeChar(c)} \cup {47, 63, 126}
\* '.ttf' and '/'
KeyTails == {<<46,116,116,102>>, <<47>>}

\* Filenames of every length up to MaxPad + 7, around the threshold of 50 ...
BoundaryFileNames ==
    {<<a, b, c>> \o Repeat(111, n) \o t :
        a \in KeyChars, b \in KeyChars, c \in KeyChars, n \in 0..MaxPad, t \in KeyTails}
\* ... and long filenames whose first characters run over every pair
DigestFileNames ==
    {<<a, b, a>> \o Repeat(111, MaxPad) : a \in DigestChars, b \in DigestChars}
KeyFileNames == BoundaryFileNames \cup DigestFileNames

IdleList ==
    /\ font = NoFont /\ filename = NoFilename /\ allIconList = <<>> /\ iconList = <<>>
    /\ searchText = <<>> /\ tracksFont = FALSE /\ isDataSaved = FALSE
IdleKey   == argFilename = <<>> /\ resKey = [cur |-> <<>>, old |-> <<>>]
IdleStore == argIcons = JNull /\ resIcons = JNull
IdleExport == isDownloading = FALSE /\ runs = <<>>
IdleDetail == detail = ClosedDetail
\* App.vue after setup: the refs of lines 29-31
IdleApp ==
    /\ fileList = <<>> /\ currentFileIndex = 0 /\ fontContent = NoContent /\ reads = {}

InitKey ==
    /\ argFilename \in KeyFileNames
    /\ resKey = [cur |-> <<>>, old |-> <<>>]
    /\ localStorage = EmptyStore /\ last = [op |-> "init"] /\ steps = 0
    /\ IdleList /\ IdleStore /\ IdleExport /\ IdleDetail /\ IdleApp

CallGetSafeStorageKey ==
    /\ Len(resKey.cur) < MaxCalls
    /\ resKey' = [resKey EXCEPT !.cur = Append(@, GetSafeStorageKey(argFilename))]
    /\ UNCHANGED <<argFilename, listVars, localStorage, last, steps, storeVars, exportVars, isDataSaved, detailVars, appVars>>

CallGetSafeStorageKeyOld ==
    /\ Len(resKey.old) < MaxCalls
    /\ resKey' = [resKey EXCEPT !.old = Append(@, GetSafeStorageKeyOld(argFilename))]
    /\ UNCHANGED <<argFilename, listVars, localStorage, last, steps, storeVars, exportVars, isDataSaved, detailVars, appVars>>

NextKey == CallGetSafeStorageKey \/ CallGetSafeStorageKeyOld

SpecKey == InitKey /\ [][NextKey]_vars

\* C8: for every filename the derived key (of either revision) is at most
\* prefix length + 50 long, whatever the filename's length, and a second call
\* with the same filename returns the key the first call returned.
C8_KeyBoundedAndStable ==
    /\ \A i \in 1..Len(resKey.cur) :
          /\ Len(resKey.cur[i]) <= Len(storageFontDatasKey) + 50
          /\ resKey.cur[i] = resKey.cur[1]
    /\ \A i \in 1..Len(resKey.old) :
          /\ Len(resKey.old[i]) <= Len(storageFontDatasKey) + 50
          /\ resKey.old[i] = resKey.old[1]

\* a filename far longer than the threshold has been keyed twice by both revisions
C8_Witness ==
    /\ Len(argFilename) > 50
    /\ Len(resKey.cur) = 2 /\ Len(resKey.old) = 2
    /\ Len(resKey.cur[1]) = Len(storageFontDatasKey) + 49

\* C9: after the fixed prefix the derived key consists of characters of
\* [A-Za-z0-9._-] only, in the short branch and in the long branch with its
\* base64 digest.
C9_KeyStorageSafe ==
    \A i \in 1..Len(resKey.cur) :
        LET k == resKey.cur[i]
        IN  /\ SubSeq(k, 1, Len(storageFontDatasKey)) = storageFontDatasKey
            /\ \A j \in (Len(storageFontDatasKey) + 1)..Len(k) :
                  \/ k[j] \in 48..57 \/ k[j] \in 65..90 \/ k[j] \in 97..122
                  \/ k[j] = 45 \/ k[j] = 46 \/ k[j] = 95

\* a long filename with characters outside the class has been keyed (long branch)
C9_Witness ==
    /\ Len(resKey.cur) >= 1
    /\ Len(argFilename) > 50
    /\ \E i \in 1..3 : ~IsSafeChar(argFilename[i])
    /\ Len(resKey.cur[1]) = Len(storageFontDatasKey) + 49


\* The filename with its first, its seventh or its last character replaced by
\* 'x' or by '?'
KeyVariants(f) ==
    {[f EXCEPT ![p] = c] : p \in {1, 7, Len(f)} \cap DOMAIN f, c \in {120, 63}}

\* the last 40 characters and the 8-character digest of a sanitised name
Last40(s) == SliceLast(s, 40)
Digest8(s) == Substring0(Btoa(s), 8)

\* C30: the key returned for a filename whose sanitised name is longer than 50
\* characters is the prefix, the last 40 characters, '-' and the base64 text of
\* the first 6 characters of the sanitised name; another long filename gets
\* the same key when its sanitised name agrees on those characters, and a
\* different key when it differs in the last 40 characters or in the digest.
C30_LongKeyFromEnds ==
    Len(resKey.cur) > 0 =>
        \A sf \in {SanitizeUnderscore(Basename(argFilename))} :
            Len(sf) > maxLength =>
              /\ \A k \in 1..Len(resKey.cur) :
                    resKey.cur[k] = storageFontDatasKey \o Last40(sf) \o <<45>> \o Btoa(SubSeq(sf, 1, 6))
              /\ \A g \in KeyVariants(argFilename) :
                    \A sg \in {SanitizeUnderscore(Basename(g))} :
                        Len(sg) > maxLength =>
                          /\ (SubSeq(sg, 1, 6) = SubSeq(sf, 1, 6) /\ Last40(sg) = Last40(sf))
                                => GetSafeStorageKey(g) = resKey.cur[1]
                          /\ (Last40(sg) # Last40(sf) \/ Digest8(sg) # Digest8(sf))
                                => GetSafeStorageKey(g) # resKey.cur[1]

\* a key was derived for a filename of 55 characters, and the filename that
\* differs from it in the seventh character only has the same key
C30_Witness ==
    /\ Len(resKey.cur) > 0
    /\ Len(argFilename) = 55
    /\ Len(SanitizeUnderscore(Basename(argFilename))) = 55
    /\ SanitizeUnderscore(Basename([argFilename EXCEPT ![7] = 120]))
           # SanitizeUnderscore(Basename(argFilename))
    /\ GetSafeStorageKey([argFilename EXCEPT ![7] = 120]) = resKey.cur[1]

----------------------------------------------------------------------------
(* The persistence store as a state machine: saveFontData and getFontData   *)
(* called with any filename and record list, in any order.                   *)

MaxStoreIcons == 2     \* longest record list handed to saveFontData

\* 'a b', 'a_b' (both sanitise to 'a_b') and 'saved-file-names'
StoreFileNames ==
    {<<97,32,98>>, <<97,95,98>>,
     <<115,97,118,101,100,45,102,105,108,101,45,110,97,109,101,115>>}

\* Records whose strings need JSON quoting: quotes, backslashes, a line feed,
\* a non-ASCII code unit, text that looks like JSON structure
StoreIcons ==
    {[unicode |-> 59905, iconName |-> <<20013,10>>, viewBox |-> <<48,32,45,56>>,
      svgPath |-> <<100,61,34,77,34>>, isEditing |-> TRUE, editingName |-> <<32,34,92>>],
     [unicode |-> 7, iconName |-> <<125,44,123,34>>, viewBox |-> <<>>,
      svgPath |-> <<92,110>>, isEditing |-> FALSE, editingName |-> <<9>>]}

StoreIconLists ==
    {<<>>} \cup
    {[i \in 1..n |-> [r EXCEPT !.unicode = @ + i - 1]] :
        r \in StoreIcons, n \in 1..MaxStoreIcons}

\* Texts no JSON.parse accepts: '[{' and '' (the empty string)
CorruptTexts == {<<91,123>>, <<>>}

\* The store when the page opens: empty, or holding a corrupt text under a
\* file's key or under the registry key
InitialStores ==
    {EmptyStore}
    \cup {SetItem(EmptyStore, GetSafeStorageKey(<<97,32,98>>), t) : t \in CorruptTexts}
    \cup {SetItem(EmptyStore, storageFileNames, <<91,123>>)}

InitStore ==
    /\ localStorage \in InitialStores
    /\ last = [op |-> "init"] /\ steps = 0
    /\ argIcons = JNull /\ resIcons = JNull
    /\ IdleList /\ IdleKey /\ IdleExport /\ IdleDetail /\ IdleApp

CallSaveFontData ==
    \E f \in StoreFileNames, icons \in StoreIconLists, quota \in BOOLEAN :
      \E r \in {SaveFontData(localStorage, f, JsonOfIcons(icons), quota)} :
            /\ localStorage' = r.ls
            /\ last' = [op |-> "saveFontData", threw |-> r.threw]
            /\ argFilename' = f
            /\ argIcons' = JsonOfIcons(icons)
            /\ resIcons' = JNull
            /\ UNCHANGED <<listVars, resKey, steps, exportVars, isDataSaved, detailVars, appVars>>

CallGetFontData ==
    \E f \in StoreFileNames :
        LET afterSave == last.op = "saveFontData" /\ ~last.threw /\ f = argFilename
        IN  /\ resIcons' = GetFontData(localStorage, f)
            /\ last' = [op |-> "getFontData", afterSave |-> afterSave]
            /\ argFilename' = f
            /\ argIcons' = IF afterSave THEN argIcons ELSE JNull
            /\ UNCHANGED <<listVars, resKey, steps, localStorage, exportVars, isDataSaved, detailVars, appVars>>

NextStore == CallSaveFontData \/ CallGetFontData

SpecStore == InitStore /\ [][NextStore]_vars

\* C3: saving a record list under a filename and loading that filename right
\* after, with no write in between, returns a value structurally equal to the
\* one saved.
C3_RoundTrip ==
    (last.op = "getFontData" /\ last.afterSave) => resIcons = argIcons

\* a list of two records with quoted characters has made the round trip, under
\* a filename that needs sanitising
C3_Witness ==
    /\ last.op = "getFontData" /\ last.afterSave
    /\ argFilename = <<97,32,98>>
    /\ resIcons.t = "arr" /\ Len(resIcons.v) = 2
    /\ IconOfJson(resIcons.v[1]).editingName = <<32,34,92>>

----------------------------------------------------------------------------
(* The icon list as a state machine: the parent changes the props, the user  *)
(* searches, renames inline and saves.                                        *)

MaxSteps == 4      \* handlers run in one behaviour

\* A font with a glyph without code point and the glyphs 'A' and 'b'
FontA ==
    [present |-> TRUE,
     glyphs  |-> << [unicode |-> 0,  name |-> <<>>,   bbox |-> <<0, 0, 0, 0>>, svg |-> <<>>],
                    [unicode |-> 65, name |-> <<65>>, bbox |-> <<0, -2, 8, 6>>,
                     svg |-> <<100,61,34,77,34>>],
                    [unicode |-> 98, name |-> <<98>>, bbox |-> <<1, 0, 5, 8>>,
                     svg |-> <<>>] >>]
\* A font none of whose glyphs has a code point
FontEmpty ==
    [present |-> TRUE,
     glyphs  |-> << [unicode |-> 0, name |-> <<>>, bbox |-> <<0, 0, 0, 0>>, svg |-> <<>>] >>]
Fonts == {FontA, FontEmpty}

\* 'a.ttf', 'b.ttf'
ListFileNames == {<<97,46,116,116,102>>, <<98,46,116,116,102>>}
\* '', 'a', 'B'
SearchTexts == {<<>>, <<97>>, <<66>>}
\* ' ', ' B '
TypedNames == {<<32>>, <<32,66,32>>}

\* The store when the page opens: empty, or holding the unparseable text '[{'
\* under the key of 'a.ttf'
ListInitialStores ==
    {EmptyStore,
     SetItem(EmptyStore, GetSafeStorageKey(<<97,46,116,116,102>>), <<91,123>>)}

\* Component setup: the watch effect runs once with the initial props
Init ==
    /\ localStorage \in ListInitialStores
    /\ font \in Fonts \cup {NoFont}
    /\ filename \in ListFileNames \cup {NoFilename}
    /\ \E w \in {WatchEffect(localStorage, font, filename)} :
           /\ allIconList = w.icons
           /\ iconList = WholeView(w.icons)
           /\ tracksFont = w.tracksFont
           /\ last = [op |-> "watchEffect", source |-> w.source]
    /\ isDataSaved = IsDataSaved(localStorage, filename)
    /\ searchText = <<>>
    /\ steps = 0
    /\ IdleKey /\ IdleStore /\ IdleExport /\ IdleDetail /\ IdleApp

\* The parent passes a new font object (possibly parsed from the same file
\* again) or another filename; the watch effect runs again when a prop its
\* last run read has changed
SetProps ==
    \E fn \in ListFileNames \cup {NoFilename} :
      \E f \in Fonts \cup {NoFont} :
        /\ steps < MaxSteps
        /\ fn # filename \/ f.present \/ f # font
        /\ font' = f
        /\ filename' = fn
        /\ IF fn # filename \/ tracksFont
           THEN \E w \in {WatchEffect(localStorage, f, fn)} :
                    /\ allIconList' = w.icons
                    /\ iconList' = WholeView(w.icons)
                    /\ tracksFont' = w.tracksFont
                    /\ last' = [op |-> "watchEffect", source |-> w.source]
           ELSE /\ UNCHANGED <<allIconList, iconList, tracksFont>>
                /\ last' = [op |-> "setProps"]
        /\ isDataSaved' = IF fn # filename THEN IsDataSaved(localStorage, fn) ELSE isDataSaved
        /\ steps' = steps + 1
        /\ UNCHANGED <<searchText, localStorage, keyVars, storeVars, exportVars,
                       detailVars, appVars>>

\* @change of the search input
DoHandleSearch ==
    \E text \in SearchTexts :
        /\ steps < MaxSteps
        /\ iconList' = HandleSearch(allIconList, text)
        /\ searchText' = text
        /\ last' = [op |-> "handleSearch", text |-> text,
                    repeated |-> (last.op = "handleSearch" /\ last.text = text),
                    viewBefore |-> iconList]
        /\ steps' = steps + 1
        /\ UNCHANGED <<font, filename, allIconList, tracksFont, localStorage,
                       keyVars, storeVars, exportVars, isDataSaved, detailVars, appVars>>

\* @click of the name of a shown icon that is not being edited
DoStartEditing ==
    \E i \in Shown(iconList) :
        /\ steps < MaxSteps
        /\ ~allIconList[i].isEditing
        /\ allIconList' = StartEditing(allIconList, iconList, i)
        /\ last' = [op |-> "startEditing", icon |-> i,
                    prev  |-> IF last.op = "startEditing" THEN last.icon ELSE 0,
                    chain |-> \/ last.op = "watchEffect"
                              \/ (last.op = "startEditing" /\ last.chain)]
        /\ steps' = steps + 1
        /\ UNCHANGED <<font, filename, iconList, searchText, tracksFont, localStorage,
                       keyVars, storeVars, exportVars, isDataSaved, detailVars, appVars>>

\* v-model of the inline input of a shown icon that is being edited
DoInputEditingName ==
    \E i \in Shown(iconList), text \in TypedNames :
        /\ steps < MaxSteps
        /\ allIconList[i].isEditing
        /\ allIconList' = [allIconList EXCEPT ![i].editingName = text]
        /\ last' = [op |-> "input", icon |-> i]
        /\ steps' = steps + 1
        /\ UNCHANGED <<font, filename, iconList, searchText, tracksFont, localStorage,
                       keyVars, storeVars, exportVars, isDataSaved, detailVars, appVars>>

\* @blur and @keyup.enter of the inline input
DoFinishEditing ==
    \E i \in Shown(iconList) :
        /\ steps < MaxSteps
        /\ allIconList[i].isEditing
        /\ allIconList' = FinishEditing(allIconList, i)
        /\ last' = [op |-> "finishEditing", icon |-> i]
        /\ steps' = steps + 1
        /\ UNCHANGED <<font, filename, iconList, searchText, tracksFont, localStorage,
                       keyVars, storeVars, exportVars, isDataSaved, detailVars, appVars>>

\* @keyup.esc of the inline input
DoCancelEditing ==
    \E i \in Shown(iconList) :
        /\ steps < MaxSteps
        /\ allIconList[i].isEditing
        /\ allIconList' = CancelEditing(allIconList, i)
        /\ last' = [op |-> "cancelEditing", icon |-> i]
        /\ steps' = steps + 1
        /\ UNCHANGED <<font, filename, iconList, searchText, tracksFont, localStorage,
                       keyVars, storeVars, exportVars, isDataSaved, detailVars, appVars>>

\* @click of the save button
DoHandleSave ==
    \E quota1 \in BOOLEAN, quota2 \in BOOLEAN :
      \E r \in {HandleSave(localStorage, filename, allIconList, quota1, quota2)} :
            /\ steps < MaxSteps
            /\ localStorage' = r.ls
            /\ last' = [op |-> "handleSave", result |-> r.result]
            /\ steps' = steps + 1
            /\ UNCHANGED <<listVars, keyVars, storeVars, exportVars, isDataSaved, detailVars, appVars>>

Next ==
    \/ SetProps
    \/ DoHandleSearch
    \/ DoStartEditing
    \/ DoInputEditingName
    \/ DoFinishEditing
    \/ DoCancelEditing
    \/ DoHandleSave

Spec == Init /\ [][Next]_vars

----------------------------------------------------------------------------
(* Properties of the icon list *)

Editing(icons) == {i \in 1..Len(icons) : icons[i].isEditing}

\* The letters a and b are the same up to case
SameLetter(a, b) ==
    \/ a = b
    \/ a \in 65..90 /\ b = a + 32
    \/ b \in 65..90 /\ a = b + 32

\* name contains text, case-insensitively
ContainsCI(name, text) ==
    \E k \in 0..(Len(name) - Len(text)) :
        \A j \in 1..Len(text) : SameLetter(name[k + j], text[j])

\* view lists records of the collection in the collection's order, none twice
OrderPreserving(view, icons) ==
    /\ \A p \in 1..Len(view) : view[p] \in 1..Len(icons)
    /\ \A p \in 1..Len(view), q \in 1..Len(view) : p < q => view[p] < view[q]

\* C1: at every moment at most one record of the canonical collection is
\* being edited.
C1_AtMostOneEditing == Cardinality(Editing(allIconList)) <= 1

\* C2: right after beginEdit on a shown record, that record is being edited
\* with its staging buffer equal to its name, no other shown record is being
\* edited, the record of the beginEdit just before it is closed, and after
\* nothing but beginEdit calls since the collection was loaded exactly one
\* record is being edited.
C2_BeginEditClosesOthers ==
    last.op = "startEditing" =>
        /\ allIconList[last.icon].isEditing
        /\ allIconList[last.icon].editingName = allIconList[last.icon].iconName
        /\ \A j \in Shown(iconList) \ {last.icon} : ~allIconList[j].isEditing
        /\ last.prev # 0 => ~allIconList[last.prev].isEditing
        /\ last.chain => Editing(allIconList) = {last.icon}

\* beginEdit(A) directly followed by beginEdit(B)
C2_Witness ==
    /\ last.op = "startEditing" /\ last.chain
    /\ last.prev # 0 /\ last.prev # last.icon

\* A record list is stored for the current filename: the text under its key
\* parses to an array
StoredExists ==
    /\ filename # NoFilename
    /\ HasItem(localStorage, GetSafeStorageKey(filename))
    /\ LET r == JsonParse(localStorage[GetSafeStorageKey(filename)])
       IN  r.ok /\ r.val.t = "arr"

\* The text stored for the current filename parses to a value with a length
\* above zero
StoredNonEmpty ==
    /\ filename # NoFilename
    /\ HasItem(localStorage, GetSafeStorageKey(filename))
    /\ LET r == JsonParse(localStorage[GetSafeStorageKey(filename)])
       IN  r.ok /\ r.val.t \in {"arr", "str"} /\ Len(r.val.v) > 0

\* The outcome of the load policy, given whether the stored record counts
LoadPolicy(useStored) ==
    IF useStored
    THEN /\ last.source = "cache"
         /\ allIconList = IconsOfJson(GetFontData(localStorage, filename))
         /\ iconList = WholeView(allIconList)
    ELSE IF font.present
    THEN /\ last.source = "font"
         /\ allIconList = GeneratorIconList(font)
         /\ iconList = WholeView(allIconList)
    ELSE /\ allIconList = <<>>
         /\ iconList = <<>>

\* C4 as claimed: after a run of the watch effect, a stored record for the
\* current filename, if one exists, is both views and extraction was not run;
\* otherwise the extraction result of a present font is both views; otherwise
\* both are empty.
C4_StoredRecordWins ==
    last.op = "watchEffect" => LoadPolicy(StoredExists)

\* C4 as amended: the stored record is used when it parses and is not empty.
C4_NonEmptyStoredRecordWins ==
    last.op = "watchEffect" => LoadPolicy(StoredNonEmpty)

\* a saved collection was loaded although a font with glyphs was passed
C4_Witness ==
    /\ last.op = "watchEffect" /\ last.source = "cache"
    /\ font = FontA /\ steps > 0
    /\ Len(allIconList) = 2

\* C5: in every state the filtered view is the subsequence of the canonical
\* collection whose names contain the search text, case-insensitively.
C5_ViewMatchesSearch ==
    /\ OrderPreserving(iconList, allIconList)
    /\ Shown(iconList) =
          {i \in 1..Len(allIconList) : ContainsCI(allIconList[i].iconName, searchText)}

\* C6: right after search(text) the view is an order-preserving part of the
\* canonical collection, holding the records whose name contains the text
\* case-insensitively, and a second search(text) in a row leaves the view as
\* the first made it.
C6_SearchSoundAndIdempotent ==
    last.op = "handleSearch" =>
        /\ OrderPreserving(iconList, allIconList)
        /\ Shown(iconList) =
              {i \in 1..Len(allIconList) : ContainsCI(allIconList[i].iconName, last.text)}
        /\ last.repeated => iconList = last.viewBefore

\* search('a') was run twice in a row on a collection of two records and
\* shows the record named 'A' only
C6_Witness ==
    /\ last.op = "handleSearch" /\ last.repeated
    /\ last.text = <<97>>
    /\ Len(allIconList) = 2 /\ Len(iconList) = 1
    /\ allIconList[iconList[1]].iconName = <<65>>

\* C7: right after search('') the view is the whole canonical collection in
\* its order, whatever the view was before.
C7_EmptySearchShowsAll ==
    (last.op = "handleSearch" /\ last.text = <<>>) =>
        /\ Len(iconList) = Len(allIconList)
        /\ \A p \in 1..Len(iconList) : iconList[p] = p

\* search('') was run when a search had narrowed the view
C7_Witness ==
    /\ last.op = "handleSearch" /\ last.text = <<>>
    /\ Len(last.viewBefore) < Len(allIconList)
    /\ Len(iconList) = 2

\* C10: a persist() that ends with the error message leaves the store as it
\* was before the call.
C10_FailedSaveLeavesStore ==
    [][(last'.op = "handleSave" /\ last'.result = "error" /\ steps' = steps + 1)
        => localStorage' = localStorage]_vars

\* Nothing is stored under the key of the current filename, or the text
\* stored there is not JSON
StoredMissingOrCorrupt ==
    \/ ~HasItem(localStorage, GetSafeStorageKey(filename))
    \/ ~JsonParse(localStorage[GetSafeStorageKey(filename)]).ok

\* C11: when nothing is stored under the key of the filename, or the stored
\* text is not parseable JSON, load(filename) returns the empty list, and the
\* watch effect that called it goes on to the fallback: the extraction result
\* of a present font becomes both views, else both are cleared.
C11_LoadFailsSoft ==
    (last.op = "watchEffect" /\ filename # NoFilename /\ StoredMissingOrCorrupt) =>
        /\ GetFontData(localStorage, filename) = JArr(<<>>)
        /\ LoadPolicy(FALSE)

\* the watch effect has run again with an unparseable text stored for the
\* filename and a font with glyphs, and has extracted the two icons
C11_Witness ==
    /\ last.op = "watchEffect" /\ steps > 0
    /\ filename = <<97,46,116,116,102>>
    /\ HasItem(localStorage, GetSafeStorageKey(filename))
    /\ localStorage[GetSafeStorageKey(filename)] = <<91,123>>
    /\ last.source = "font" /\ Len(allIconList) = 2

\* C14: persist() without a filename shows the error for the missing filename
\* and leaves the store as it was; a persist() with a filename that succeeds
\* leaves, under the key of the filename, the text of the whole canonical
\* collection.
C14_PersistWritesCanonical ==
    [][(last'.op = "handleSave" /\ steps' = steps + 1) =>
          IF filename = NoFilename
          THEN last'.result = "nofilename" /\ localStorage' = localStorage
          ELSE /\ last'.result # "nofilename"
               /\ last'.result = "success" =>
                    /\ HasItem(localStorage', GetSafeStorageKey(filename))
                    /\ localStorage'[GetSafeStorageKey(filename)]
                          = JsonStringify(JsonOfIcons(allIconList))]_vars

\* a collection of two icons was persisted while the search showed one of them
C14_Witness ==
    /\ last.op = "handleSave" /\ steps > 0 /\ last.result = "success"
    /\ Len(allIconList) = 2 /\ Len(iconList) = 1
    /\ IconsOfJson(GetFontData(localStorage, filename)) = allIconList

----------------------------------------------------------------------------
(* The filename registry as a state machine: saveFileNameData, handleSave    *)
(* and deleteStorageData called with any filename, in any order.             *)

\* 'a b', 'a_b' (one key for both) and 'saved-file-names'
RegFileNames ==
    {<<97,32,98>>, <<97,95,98>>,
     <<115,97,118,101,100,45,102,105,108,101,45,110,97,109,101,115>>}

\* The collections persisted: none, and one icon named 'A'
RegIconLists ==
    {<<>>,
     << [unicode |-> 65, iconName |-> <<65>>, viewBox |-> <<>>, svgPath |-> <<>>,
         isEditing |-> FALSE, editingName |-> <<65>>] >>}

\* The filenames of the registry in their order: the strings of the array
\* stored under the registry key
IsFileName(e) == e.t = "str"
Registry(ls) ==
    LET Names(r) == IF r.t = "arr" THEN SelectSeq(r.v, IsFileName) ELSE <<>>
    IN  Names(GetSavedFileNameData(ls))

InRegistry(ls, f) ==
    LET Has(names) == \E i \in 1..Len(names) : names[i].v = f
    IN  Has(Registry(ls))

\* The store when the page opens: empty, or with an unparseable registry
InitRegistry ==
    /\ localStorage \in {EmptyStore, SetItem(EmptyStore, storageFileNames, <<91,123>>)}
    /\ last = [op |-> "init"] /\ steps = 0
    /\ IdleList /\ IdleKey /\ IdleStore /\ IdleExport /\ IdleDetail /\ IdleApp

CallSaveFileNameData ==
    \E f \in RegFileNames, quota \in BOOLEAN :
      \E r \in {SaveFileNameData(localStorage, f, quota)} :
        /\ localStorage' = r.ls
        /\ last' = [op |-> "saveFileNameData", f |-> f, threw |-> r.threw,
                    wasIn |-> InRegistry(localStorage, f)]
        /\ UNCHANGED <<listVars, keyVars, storeVars, exportVars, steps, isDataSaved, detailVars, appVars>>

CallPersist ==
    \E f \in RegFileNames, icons \in RegIconLists, quota1 \in BOOLEAN, quota2 \in BOOLEAN :
      \E r \in {HandleSave(localStorage, f, icons, quota1, quota2)} :
        /\ localStorage' = r.ls
        /\ last' = [op |-> "handleSave", f |-> f, threw |-> r.result = "error",
                    wasIn |-> InRegistry(localStorage, f)]
        /\ UNCHANGED <<listVars, keyVars, storeVars, exportVars, steps, isDataSaved, detailVars, appVars>>

CallDeleteStorageData ==
    \E f \in RegFileNames, quota \in BOOLEAN :
      \E r \in {DeleteStorageData(localStorage, f, quota)} :
        /\ localStorage' = r.ls
        /\ last' = [op |-> "deleteStorageData", f |-> f, threw |-> r.threw,
                    wasIn |-> InRegistry(localStorage, f)]
        /\ UNCHANGED <<listVars, keyVars, storeVars, exportVars, steps, isDataSaved, detailVars, appVars>>

NextRegistry == CallSaveFileNameData \/ CallPersist \/ CallDeleteStorageData

SpecRegistry == InitRegistry /\ [][NextRegistry]_vars

NoDuplicates(names) ==
    \A i \in 1..Len(names) : \A j \in 1..Len(names) : names[i] = names[j] => i = j

\* C12: after every registryAdd, persist and delete the registry holds no
\* filename twice, and a registryAdd of a filename that was in the registry
\* leaves the registry as it was.
C12_RegistryNoDuplicates ==
    [][/\ NoDuplicates(Registry(localStorage'))
       /\ (last'.op = "saveFileNameData" /\ last'.wasIn)
              => Registry(localStorage') = Registry(localStorage)]_vars

\* 'a_b' was added again to a registry that holds 'a b' and 'a_b'
C12_Witness ==
    /\ last.op = "saveFileNameData" /\ last.wasIn /\ ~last.threw
    /\ last.f = <<97,95,98>>
    /\ Len(Registry(localStorage)) = 2

\* C13: a delete(filename) that returns leaves no record under the key of the
\* filename and the registry without the filename, its other entries in their
\* order; the registry is as it was when the filename was not in it.
C13_DeleteKeepsOthers ==
    [][(last'.op = "deleteStorageData" /\ ~last'.threw) =>
          LET f == last'.f
              NotF(e) == e.v # f
          IN  /\ ~HasItem(localStorage', GetSafeStorageKey(f))
              /\ ~InRegistry(localStorage', f)
              /\ Registry(localStorage') = SelectSeq(Registry(localStorage), NotF)]_vars

----------------------------------------------------------------------------
(* The batch exports as a state machine: the user clicks the two download    *)
(* buttons at any time; conversions, packaging and timers settle in any      *)
(* order.                                                                    *)

MaxExports == 2     \* exports started in one behaviour

ExportIcon(u, name) ==
    [unicode |-> u, iconName |-> name, viewBox |-> <<>>, svgPath |-> <<>>,
     isEditing |-> FALSE, editingName |-> name]

\* The collections exported: none; 'B'; 'A' and an icon without name; two
\* icons both renamed to 'B' and an icon without name
ExportCollections ==
    {<<>>,
     <<ExportIcon(65, <<66>>)>>,
     <<ExportIcon(65, <<65>>), ExportIcon(59905, <<>>)>>,
     <<ExportIcon(65, <<66>>), ExportIcon(98, <<66>>), ExportIcon(59905, <<>>)>>}

\* The component was set up for 'a.ttf' with one of the collections saved
InitExport ==
    /\ localStorage \in {SaveFontData(EmptyStore, <<97,46,116,116,102>>,
                                      JsonOfIcons(c), FALSE).ls : c \in ExportCollections}
    /\ font = NoFont
    /\ filename = <<97,46,116,116,102>>
    /\ \E w \in {WatchEffect(localStorage, font, filename)} :
           /\ allIconList = w.icons
           /\ iconList = WholeView(w.icons)
           /\ tracksFont = w.tracksFont
    /\ isDataSaved = IsDataSaved(localStorage, filename)
    /\ searchText = <<>>
    /\ last = [op |-> "init"] /\ steps = 0
    /\ IdleKey /\ IdleStore /\ IdleExport /\ IdleDetail /\ IdleApp

\* @click of the SVG button
DoDownloadAllSvg ==
    \E d \in {DownloadAllSvg(isDownloading, runs, allIconList)} :
        /\ Len(runs) < MaxExports
        /\ isDownloading' = d.flag
        /\ runs' = IF Len(d.runs) > Len(runs)
                   THEN [d.runs EXCEPT ![Len(d.runs)].startedFor = filename]
                   ELSE d.runs
        /\ last' = [op |-> "downloadAllSvg", started |-> Len(d.runs) > Len(runs)]
        /\ UNCHANGED <<listVars, localStorage, steps, keyVars, storeVars, isDataSaved, detailVars, appVars>>

\* @click of the PNG button
DoDownloadAllPng ==
    \E d \in {DownloadAllPng(isDownloading, runs, allIconList)} :
        /\ Len(runs) < MaxExports
        /\ isDownloading' = d.flag
        /\ runs' = IF Len(d.runs) > Len(runs)
                   THEN [d.runs EXCEPT ![Len(d.runs)].startedFor = filename]
                   ELSE d.runs
        /\ last' = [op |-> "downloadAllPng", started |-> Len(d.runs) > Len(runs)]
        /\ UNCHANGED <<listVars, localStorage, steps, keyVars, storeVars, isDataSaved, detailVars, appVars>>

\* image.onload with canvas.toBlob, or image.onerror, of one conversion
SvgToPngSettle ==
    \E r \in 1..Len(runs), ok \in BOOLEAN :
      \E i \in 1..Len(runs[r].conv) :
        /\ runs[r].conv[i] = "pending"
        /\ runs' = [runs EXCEPT ![r] = SvgToPngSettles(runs[r], runs[r].icons, i, ok)]
        /\ last' = [op |-> "svgToPng", run |-> r, icon |-> i, ok |-> ok]
        /\ UNCHANGED <<listVars, localStorage, steps, keyVars, storeVars, isDownloading, isDataSaved, detailVars, appVars>>

\* downloadAllPng resumes after await Promise.all(promises)
PngConversionsDone ==
    \E r \in 1..Len(runs) :
        /\ runs[r].phase = "converting"
        /\ PromiseAll(runs[r].conv)
        /\ \E a \in {AfterConversions(isDownloading, runs[r])} :
               /\ isDownloading' = a.flag
               /\ runs' = [runs EXCEPT ![r] = a.run]
        /\ last' = [op |-> "afterConversions", run |-> r]
        /\ UNCHANGED <<listVars, localStorage, steps, keyVars, storeVars, isDataSaved, detailVars, appVars>>

\* zip.generateAsync of an export resolves or rejects
ZipGenerateSettle ==
    \E r \in 1..Len(runs), ok \in BOOLEAN :
        /\ runs[r].phase = "packaging"
        /\ runs' = [runs EXCEPT ![r] = GenerateSettles(runs[r], ok, filename)]
        /\ last' = [op |-> "generateAsync", run |-> r, ok |-> ok]
        /\ UNCHANGED <<listVars, localStorage, steps, keyVars, storeVars, isDownloading, isDataSaved, detailVars, appVars>>

\* One time unit passes
Tick ==
    /\ \E r \in 1..Len(runs) : runs[r].timer > 0
    /\ runs' = [r \in 1..Len(runs) |->
                   IF runs[r].timer > 0 THEN [runs[r] EXCEPT !.timer = runs[r].timer - 1]
                   ELSE runs[r]]
    /\ last' = [op |-> "tick"]
    /\ UNCHANGED <<listVars, localStorage, steps, keyVars, storeVars, isDownloading, isDataSaved, detailVars, appVars>>

\* The callback of setTimeout runs: isDownloading.value = false
TimerFires ==
    \E r \in 1..Len(runs) :
        /\ runs[r].timer = 0
        /\ isDownloading' = FALSE
        /\ runs' = [runs EXCEPT ![r].timer = -1]
        /\ last' = [op |-> "timerFires", run |-> r]
        /\ UNCHANGED <<listVars, localStorage, steps, keyVars, storeVars, isDataSaved, detailVars, appVars>>

\* 'a.ttf', 'b.ttf'
ExportFileNames == {<<97,46,116,116,102>>, <<98,46,116,116,102>>}

\* The parent passes the name of another file (a click in the file list); the
\* watch effect loads the collection of that file
SetFilename ==
    \E fn \in ExportFileNames \ {filename} :
      \E w \in {WatchEffect(localStorage, font, fn)} :
        /\ filename' = fn
        /\ allIconList' = w.icons
        /\ iconList' = WholeView(w.icons)
        /\ tracksFont' = w.tracksFont
        /\ isDataSaved' = IsDataSaved(localStorage, fn)
        /\ last' = [op |-> "watchEffect", source |-> w.source]
        /\ UNCHANGED <<font, searchText, localStorage, steps, keyVars, storeVars, exportVars,
                       detailVars, appVars>>

NextExport ==
    \/ DoDownloadAllSvg
    \/ DoDownloadAllPng
    \/ SvgToPngSettle
    \/ PngConversionsDone
    \/ ZipGenerateSettle
    \/ Tick
    \/ TimerFires

SpecExport == InitExport /\ [][NextExport]_vars

\* The exports while the user also switches between the files
NextExportSwitch == SetFilename \/ NextExport

SpecExportSwitch == InitExport /\ [][NextExportSwitch]_vars

InFlight(rs) == {r \in 1..Len(rs) : rs[r].phase # "ended"}

\* C15: a click on a download button while an export is running changes
\* neither the exports nor the flag; at no time are two exports running; and
\* the flag is set for as long as an export is running.
C15_OneExportInFlight ==
    [][/\ Cardinality(InFlight(runs')) <= 1
       /\ InFlight(runs') # {} => isDownloading'
       /\ (last'.op \in {"downloadAllSvg", "downloadAllPng"} /\ InFlight(runs) # {})
             => (runs' = runs /\ isDownloading' = isDownloading)]_vars

\* a download button was clicked while a PNG export was converting, and
\* nothing was started
C15_Witness ==
    /\ last.op \in {"downloadAllSvg", "downloadAllPng"} /\ ~last.started
    /\ Len(runs) = 1 /\ runs[1].phase = "converting"
    /\ isDownloading


\* C16: when an export ends, by completion or by failure, the flag is still
\* set and the reset is armed for resetDelay time units; the flag is cleared
\* by nothing but that timer after the delay has elapsed.
C16_FlagHeldForDelay ==
    [][/\ \A r \in 1..Len(runs) :
              (runs[r].phase # "ended" /\ runs'[r].phase = "ended")
                  => (isDownloading' /\ runs'[r].timer = resetDelay)
       /\ (isDownloading /\ ~isDownloading') => last'.op = "timerFires"]_vars


Converted(run) == {i \in 1..Len(run.conv) : run.conv[i] = "ok"}
Failed(run)    == {i \in 1..Len(run.conv) : run.conv[i] = "failed"}

\* C17: a PNG export of N icons that has ended with exactly one failed
\* conversion: with N = 1 it reported failure and produced no archive; with
\* N >= 2 and the packaging done, the archive has exactly N-1 entries and
\* success was reported.
C17_OneFailureGivesNMinusOne ==
    \A r \in 1..Len(runs) :
        (runs[r].kind = "png" /\ runs[r].phase = "ended" /\ Cardinality(Failed(runs[r])) = 1)
            => IF Len(runs[r].conv) = 1
               THEN runs[r].report = "failure" /\ ~runs[r].archive
               ELSE runs[r].archive
                       => /\ Cardinality(DOMAIN runs[r].zip) = Len(runs[r].conv) - 1
                          /\ runs[r].report = "success"

\* C18: the archive an export has produced holds exactly one entry per icon
\* of the collection (per converted icon for PNG), under the icon's name or
\* 'icon_<unicode>' when the name is empty, followed by the extension.
C18_OneEntryPerIcon ==
    \A r \in 1..Len(runs) :
        runs[r].archive
            => LET ext == IF runs[r].kind = "svg" THEN ExtSvg ELSE ExtPng
               IN  /\ Cardinality(DOMAIN runs[r].zip) = Cardinality(Converted(runs[r]))
                   /\ DOMAIN runs[r].zip
                         = {EntryName(runs[r].icons[i], ext) : i \in Converted(runs[r])}
                   /\ runs[r].kind = "svg" => Converted(runs[r]) = 1..Len(runs[r].icons)


\* C19: a conversion that fails changes nothing of its export but its own
\* outcome: every other conversion stays as it was (pending ones stay
\* pending), the zip is kept and the export goes on converting; and an
\* export leaves the conversion phase only when no conversion is pending.
C19_ConversionsIndependent ==
    [][/\ (last'.op = "svgToPng" /\ ~last'.ok)
              => /\ runs'[last'.run].conv[last'.icon] = "failed"
                 /\ \A i \in 1..Len(runs[last'.run].conv) :
                        i # last'.icon => runs'[last'.run].conv[i] = runs[last'.run].conv[i]
                 /\ runs'[last'.run].zip = runs[last'.run].zip
                 /\ runs'[last'.run].phase = "converting"
                 /\ runs'[last'.run].report = "none"
                 /\ isDownloading' = isDownloading
       /\ \A r \in 1..Len(runs) :
              (runs[r].phase = "converting" /\ runs'[r].phase # "converting")
                  => \A i \in 1..Len(runs[r].conv) : runs[r].conv[i] \in {"ok", "failed"}]_vars

\* a conversion succeeded and was added to the zip after another conversion
\* of the same export had failed, and the export then went on to packaging
C19_Witness ==
    /\ last.op = "afterConversions"
    /\ runs[last.run].phase = "packaging"
    /\ runs[last.run].conv = <<"failed", "ok">>
    /\ Cardinality(DOMAIN runs[last.run].zip) = 1


\* name is text without its leading and trailing white space, and is not empty
IsTrimOf(name, text) ==
    /\ name # <<>> /\ ~IsSpace(name[1]) /\ ~IsSpace(name[Len(name)])
    /\ \E lo \in 1..Len(text) :
           /\ lo + Len(name) - 1 <= Len(text)
           /\ SubSeq(text, lo, lo + Len(name) - 1) = name
           /\ \A k \in 1..Len(text) : (k < lo \/ k >= lo + Len(name)) => IsSpace(text[k])

AllSpace(text) == \A k \in 1..Len(text) : IsSpace(text[k])

\* C20: finishEditing(icon) sets the name to the edit buffer without its
\* leading and trailing white space when that is not empty and leaves the name
\* otherwise; cancelEditing(icon) leaves the name; both close the editing state
\* and change nothing else of the icon nor any other icon.
C20_CommitAndCancel ==
    [][(steps' # steps /\ last'.op \in {"finishEditing", "cancelEditing"})
          => LET i   == last'.icon
                 old == allIconList[i]
                 new == allIconList'[i]
             IN  /\ Len(allIconList') = Len(allIconList)
                 /\ \A j \in 1..Len(allIconList) : j # i => allIconList'[j] = allIconList[j]
                 /\ ~new.isEditing
                 /\ new = [old EXCEPT !.iconName = new.iconName, !.isEditing = FALSE]
                 /\ IF last'.op = "cancelEditing" \/ AllSpace(old.editingName)
                    THEN new.iconName = old.iconName
                    ELSE IsTrimOf(new.iconName, old.editingName)]_vars

\* ' B ' was typed for an icon with another name and committed: the name is 'B'
C20_Witness ==
    /\ last.op = "finishEditing"
    /\ allIconList[last.icon].editingName = <<32,66,32>>
    /\ allIconList[last.icon].iconName = <<66>>
    /\ ~allIconList[last.icon].isEditing


\* C21: the value isDataSaved shows for the active filename is true exactly
\* when a text is stored under the key of that filename, in every state.
C21_SavedFlagMatchesStore ==
    isDataSaved = (filename # NoFilename /\ HasItem(localStorage, GetSafeStorageKey(filename)))

----------------------------------------------------------------------------
(* The detail modal as a state machine: the user opens it on a shown icon,   *)
(* edits the name, transforms the preview and closes it.                     *)

MaxDetailSteps == 3     \* handlers run in one behaviour

\* '', ' C'
DetailNames == {<<>>, <<32,67>>}

\* The list was set up for 'a.ttf' with a saved collection; the modal is closed
InitDetail ==
    /\ localStorage \in {SaveFontData(EmptyStore, <<97,46,116,116,102>>,
                                      JsonOfIcons(c), FALSE).ls : c \in ExportCollections \ {<<>>}}
    /\ font = NoFont
    /\ filename = <<97,46,116,116,102>>
    /\ \E w \in {WatchEffect(localStorage, font, filename)} :
           /\ allIconList = w.icons
           /\ iconList = WholeView(w.icons)
           /\ tracksFont = w.tracksFont
    /\ isDataSaved = IsDataSaved(localStorage, filename)
    /\ searchText = <<>>
    /\ last = [op |-> "init"] /\ steps = 0
    /\ IdleKey /\ IdleStore /\ IdleExport /\ IdleDetail /\ IdleApp

\* @click of the picture of a shown icon: handleOpenEdit(svg)
DoOpenModal ==
    \E i \in Shown(iconList) :
        /\ steps < MaxDetailSteps
        /\ ~detail.isModalVisible
        /\ detail' = OpenModal(detail, i)
        /\ last' = [op |-> "openModal", icon |-> i]
        /\ steps' = steps + 1
        /\ UNCHANGED <<listVars, localStorage, keyVars, storeVars, exportVars, isDataSaved, appVars>>

\* the modal is closed by its close button, the mask or Esc
DoCloseModal ==
    /\ steps < MaxDetailSteps
    /\ detail.isModalVisible
    /\ detail' = CloseModal(detail)
    /\ last' = [op |-> "closeModal"]
    /\ steps' = steps + 1
    /\ UNCHANGED <<listVars, localStorage, keyVars, storeVars, exportVars, isDataSaved, appVars>>

\* a control of the open modal that changes the preview: the colour '#f00', a
\* scale or an angle typed or cleared, a rotate button, a move button, the grid
DoTransform ==
    \E t \in    {[op |-> "updateColor", d |-> UpdateColor(detail, <<35,102,48,48>>)]}
           \cup {[op |-> "setScaleFactor", d |-> SetScaleFactor(detail, s)] : s \in {2, NullNumber}}
           \cup {[op |-> "setRotationAngle", d |-> SetRotationAngle(detail, a)] :
                     a \in {90, NullNumber}}
           \cup {[op |-> "rotateIcon", d |-> RotateIcon(detail, a)] : a \in {45, -45}}
           \cup {[op |-> "moveIcon", d |-> MoveIcon(detail, m)] :
                     m \in {"up", "down", "left", "right"}}
           \cup {[op |-> "toggleGridVisibility", d |-> ToggleGridVisibility(detail)]} :
        /\ steps < MaxDetailSteps
        /\ SvgRendered(detail)
        /\ detail' = t.d
        /\ last' = [op |-> t.op]
        /\ steps' = steps + 1
        /\ UNCHANGED <<listVars, localStorage, keyVars, storeVars, exportVars, isDataSaved, appVars>>

\* the name input of the open modal
DoInputIconName ==
    \E text \in DetailNames :
        /\ steps < MaxDetailSteps
        /\ SvgRendered(detail)
        /\ allIconList' = InputIconName(allIconList, detail.currentIcon, text)
        /\ last' = [op |-> "inputIconName", text |-> text]
        /\ steps' = steps + 1
        /\ UNCHANGED <<font, filename, iconList, searchText, tracksFont, localStorage,
                       keyVars, storeVars, exportVars, isDataSaved, detailVars, appVars>>

NextDetail ==
    \/ DoOpenModal
    \/ DoCloseModal
    \/ DoTransform
    \/ DoInputIconName

SpecDetail == InitDetail /\ [][NextDetail]_vars

TransformOps ==
    {"updateColor", "setScaleFactor", "setRotationAngle", "rotateIcon", "moveIcon",
     "toggleGridVisibility"}

\* C22: the transform operations of the detail modal and openModal leave
\* every record of the collection, the view and the store as they were; the
\* name input of the modal changes the name of the shown record, in the
\* collection itself, and nothing else.
C22_TransformsAreViewOnly ==
    [][/\ (steps' # steps /\ last'.op \in TransformOps \cup {"openModal"})
              => (allIconList' = allIconList /\ iconList' = iconList
                  /\ localStorage' = localStorage)
       /\ (steps' # steps /\ last'.op = "inputIconName")
              => /\ localStorage' = localStorage
                 /\ Len(allIconList') = Len(allIconList)
                 /\ \A j \in 1..Len(allIconList) :
                        allIconList'[j] =
                            IF j = detail.currentIcon
                            THEN [allIconList[j] EXCEPT !.iconName = last'.text]
                            ELSE allIconList[j]]_vars

\* the modal was opened on the second icon, the preview was moved, and then
\* the name ' C' was typed: the second record of the collection has that name
C22_Witness ==
    /\ last.op = "inputIconName"
    /\ detail.currentIcon = 2
    /\ detail.transform.x # 0
    /\ allIconList[2].iconName = <<32,67>>


\* C23: the key under which persist and delete handle the record of a
\* filename is not the registry key, and persist and delete of a filename
\* keep every other filename that was in the registry.
C23_RecordKeyApartFromRegistry ==
    [][last'.op \in {"handleSave", "deleteStorageData"}
          => /\ GetSafeStorageKey(last'.f) # storageFileNames
             /\ \A g \in RegFileNames :
                    (g # last'.f /\ InRegistry(localStorage, g)) => InRegistry(localStorage', g)]_vars


\* C24: persist and delete of the icon set of one filename leave what
\* getFontData returns for every other filename as it was.
C24_OtherFilesUntouched ==
    [][last'.op \in {"handleSave", "deleteStorageData"}
          => \A f \in RegFileNames \ {last'.f} :
                 GetFontData(localStorage', f) = GetFontData(localStorage, f)]_vars


\* every filename is in the registry exactly when a text is stored under its key
RegistryMatchesRecords(ls) ==
    \A f \in RegFileNames : InRegistry(ls, f) <=> HasItem(ls, GetSafeStorageKey(f))

\* C25: persist and delete, also when they fail part-way, keep the registry
\* and the stored records in step: from a store in which the filenames of the
\* registry are those with a record, they lead to such a store.
C25_RegistryInStepWithRecords ==
    [][(last'.op \in {"handleSave", "deleteStorageData"} /\ RegistryMatchesRecords(localStorage))
          => RegistryMatchesRecords(localStorage')]_vars

----------------------------------------------------------------------------
(* The file list as a state machine: the user uploads files one at a time,   *)
(* clicks and removes files of the list; the reads settle in any order.      *)

MaxAppSteps == 4     \* handlers run in one behaviour

\* 'a.ttf', 'b.ttf', another file named 'a.ttf', and 'c.ttf' which does not parse
AppFiles ==
    {[name |-> <<97,46,116,116,102>>, id |-> 1, valid |-> TRUE],
     [name |-> <<98,46,116,116,102>>, id |-> 2, valid |-> TRUE],
     [name |-> <<97,46,116,116,102>>, id |-> 3, valid |-> TRUE],
     [name |-> <<99,46,116,116,102>>, id |-> 4, valid |-> FALSE]}

AppState ==
    [fileList |-> fileList, currentFileIndex |-> currentFileIndex,
     fontContent |-> fontContent, reads |-> reads]

InitApp ==
    /\ IdleApp
    /\ localStorage = EmptyStore /\ last = [op |-> "init"] /\ steps = 0
    /\ IdleList /\ IdleKey /\ IdleStore /\ IdleExport /\ IdleDetail

\* @update:file-list of the upload: the list with one more file
DoHandleUploadChange ==
    \E f \in AppFiles :
      \E n \in {HandleUploadChange(AppState, Append(fileList, f), steps)} :
        /\ steps < MaxAppSteps
        /\ \A k \in 1..Len(fileList) : fileList[k].id # f.id
        /\ fileList' = n.fileList /\ currentFileIndex' = n.currentFileIndex
        /\ fontContent' = n.fontContent /\ reads' = n.reads
        /\ last' = [op |-> "handleUploadChange", index |-> Len(fileList),
                    before |-> currentFileIndex]
        /\ steps' = steps + 1
        /\ UNCHANGED <<listVars, localStorage, keyVars, storeVars, exportVars, isDataSaved,
                       detailVars>>

\* @click.stop of the X button of a file
DoHandleRemove ==
    \E index \in 0..(Len(fileList) - 1) :
      \E n \in {HandleRemove(AppState, index, steps)} :
        /\ steps < MaxAppSteps
        /\ fileList' = n.fileList /\ currentFileIndex' = n.currentFileIndex
        /\ fontContent' = n.fontContent /\ reads' = n.reads
        /\ last' = [op |-> "handleRemove", index |-> index, before |-> currentFileIndex]
        /\ steps' = steps + 1
        /\ UNCHANGED <<listVars, localStorage, keyVars, storeVars, exportVars, isDataSaved,
                       detailVars>>

\* @click of a file
DoHandleFileClick ==
    \E index \in 0..(Len(fileList) - 1) :
      \E n \in {HandleFileClick(AppState, index, steps)} :
        /\ steps < MaxAppSteps
        /\ fileList' = n.fileList /\ currentFileIndex' = n.currentFileIndex
        /\ fontContent' = n.fontContent /\ reads' = n.reads
        /\ last' = [op |-> "handleFileClick", index |-> index, before |-> currentFileIndex]
        /\ steps' = steps + 1
        /\ UNCHANGED <<listVars, localStorage, keyVars, storeVars, exportVars, isDataSaved,
                       detailVars>>

\* the arrayBuffer() promise of one read settles and its callback runs
ReadResolves ==
    \E r \in reads :
      \E n \in {ReadSettles(AppState, r)} :
        /\ fontContent' = n.fontContent /\ reads' = n.reads
        /\ last' = [op |-> "readSettles", index |-> 0, before |-> currentFileIndex]
        /\ UNCHANGED <<fileList, currentFileIndex, steps, listVars, localStorage, keyVars,
                       storeVars, exportVars, isDataSaved, detailVars>>

NextApp ==
    \/ DoHandleUploadChange
    \/ DoHandleRemove
    \/ DoHandleFileClick
    \/ ReadResolves

SpecApp == InitApp /\ [][NextApp]_vars

\* C26: when no read is pending and the file at the current index can be
\* parsed, fontContent is the font parsed from that file, the file whose name
\* is passed to the icon list.
C26_FontOfCurrentFile ==
    (reads = {} /\ fileList # <<>> /\ currentFileIndex < Len(fileList)
        /\ fileList[currentFileIndex + 1].valid)
        => fontContent = fileList[currentFileIndex + 1].id


\* C29: with a non-empty file list the current index is an index of the list;
\* removing a file before the active one keeps the same file active; removing
\* the only file left clears the font content.
C29_IndexStaysValid ==
    [][/\ fileList' # <<>> => (0 <= currentFileIndex' /\ currentFileIndex' < Len(fileList'))
       /\ (steps' # steps /\ last'.op = "handleRemove" /\ last'.index < last'.before)
              => fileList'[currentFileIndex' + 1] = fileList[currentFileIndex + 1]
       /\ (steps' # steps /\ last'.op = "handleRemove" /\ fileList' = <<>>)
              => fontContent' = NoContent]_vars

\* the first of two files was removed while the second was active: the second
\* file, now at index 0, is still the active one
C29_Witness ==
    /\ last.op = "handleRemove" /\ last.index = 0 /\ last.before = 1
    /\ Len(fileList) = 1 /\ currentFileIndex = 0


\* C27: the archive an export has produced is named after the filename that
\* was active when the export was started.
C27_ArchiveNamedAfterItsFile ==
    \A r \in 1..Len(runs) :
        runs[r].archive => runs[r].download = DownloadName(runs[r].startedFor, runs[r].kind)


\* Every conversion and every packaging settles, time passes and timers fire
SpecExportFair ==
    /\ SpecExport
    /\ WF_vars(SvgToPngSettle) /\ WF_vars(PngConversionsDone) /\ WF_vars(ZipGenerateSettle)
    /\ WF_vars(Tick) /\ WF_vars(TimerFires)

\* C28: whenever the in-flight flag is set it is cleared again later.
C28_FlagEventuallyCleared == isDownloading ~> ~isDownloading

\* the flag was cleared by the timer of a PNG export whose packaging failed
C28_Witness ==
    /\ last.op = "timerFires" /\ ~isDownloading
    /\ runs[last.run].kind = "png" /\ runs[last.run].report = "failure"

====
